---- MODULE Spec2Model ----
(***************************************************************************)
(* Model of scripts/generate-html.ts: the batch pipeline generateHTML      *)
(* (load -> index -> state-name backfill -> link inference -> counting ->  *)
(* projection -> output) and generateSitemaps.                             *)
(*                                                                         *)
(* A JavaScript string is a sequence of one-character strings, so that     *)
(* split(','), trim() and toLowerCase() are computed and not assumed.      *)
(* The value undefined is the one-element sequence Undefined, which no     *)
(* real string equals.  An optional number is NoCount (unset) or <<n>>.    *)
(***************************************************************************)
EXTENDS Integers, Sequences, FiniteSets, TLC

VARIABLES
    zip,                 \* the archive: member name -> rows   (data/data.zip)
    pc,                  \* position in generateHTML / generateSitemaps
    beautySalons,        \* rows of beauty_salon.csv, annotated in place
    cities,              \* rows of city.csv, annotated in place
    states,              \* rows of state.csv, annotated in place
    categories,          \* rows of category.csv, annotated in place
    citiesMap,           \* Map id -> City   (entries in insertion order)
    statesMap,           \* Map id -> State
    categoriesMap,       \* Map id -> Category
    processedSalons,
    processedCities,
    processedStates,
    processedCategories,
    written,             \* groups of output files written so far
    cityPages,           \* per rendered city page: the salons it lists
    statePages,          \* per rendered state page: its cities and salons
    i,                   \* loop offset of the company-sitemap loop
    companySitemaps,     \* sitemap indexes pushed so far
    sitemapFiles,        \* company sitemap files: sitemap index -> entries
    exitCode,            \* NoExit while the process runs, then <<status>>
    logged               \* messages of console.error, in order

vars == <<zip, pc, beautySalons, cities, states, categories, citiesMap, statesMap,
          categoriesMap, processedSalons, processedCities, processedStates,
          processedCategories, written, cityPages, statePages, i, companySitemaps,
          sitemapFiles, exitCode, logged>>

(***************************************************************************)
(* Bounds of the model                                                     *)
(***************************************************************************)
MaxSalons == 2
MaxCities == 2
MaxStates == 2
MaxCategories == 2
MaxSitemapSalons == 450

(***************************************************************************)
(* Strings                                                                 *)
(***************************************************************************)
Undefined == <<"undefined">>
NoCount == <<>>

\* the process has not ended
NoExit == <<>>

\* JavaScript truthiness of an optional string: undefined and "" are falsy
Truthy(s) == s # Undefined /\ s # <<>>

Whitespace == {" "}

LowerChar(c) ==
    CASE c = "A" -> "a"
      [] c = "B" -> "b"
      [] c = "C" -> "c"
      [] c = "D" -> "d"
      [] c = "E" -> "e"
      [] c = "F" -> "f"
      [] c = "G" -> "g"
      [] c = "H" -> "h"
      [] c = "I" -> "i"
      [] c = "J" -> "j"
      [] c = "K" -> "k"
      [] c = "L" -> "l"
      [] c = "M" -> "m"
      [] c = "N" -> "n"
      [] c = "O" -> "o"
      [] c = "P" -> "p"
      [] c = "Q" -> "q"
      [] c = "R" -> "r"
      [] c = "S" -> "s"
      [] c = "T" -> "t"
      [] c = "U" -> "u"
      [] c = "V" -> "v"
      [] c = "W" -> "w"
      [] c = "X" -> "x"
      [] c = "Y" -> "y"
      [] c = "Z" -> "z"
      [] OTHER -> c

\* String.prototype.toLowerCase
ToLowerCase(s) == [k \in 1..Len(s) |-> LowerChar(s[k])]

RECURSIVE TrimStart(_)
TrimStart(s) ==
    IF s # <<>> /\ Head(s) \in Whitespace THEN TrimStart(Tail(s)) ELSE s

RECURSIVE TrimEnd(_)
TrimEnd(s) ==
    IF s # <<>> /\ s[Len(s)] \in Whitespace
    THEN TrimEnd(SubSeq(s, 1, Len(s) - 1))
    ELSE s

\* String.prototype.trim
Trim(s) == TrimEnd(TrimStart(s))

\* String.prototype.split(','): "" gives [""], "a,b" gives ["a","b"].  The
\* segments are cut at the places of the commas, the j-th segment lying
\* between the (j-1)-th and the j-th comma.
Split(s) ==
    LET commas == {k \in 1..Len(s) : s[k] = ","}
        nth(j) == CHOOSE k \in commas : Cardinality({c \in commas : c <= k}) = j
        first(j) == IF j = 1 THEN 1 ELSE nth(j - 1) + 1
        last(j) == IF j = Cardinality(commas) + 1 THEN Len(s) ELSE nth(j) - 1
    IN  [j \in 1..(Cardinality(commas) + 1) |-> SubSeq(s, first(j), last(j))]

\* the field split unless it is undefined
SplitFieldUnlessUndefined(field) == IF field # Undefined THEN Split(field) ELSE <<>>

\* field ? field.split(',') : []
SplitField(field) == IF Truthy(field) THEN Split(field) ELSE <<>>

\* Array.prototype.includes on an array of strings
Includes(arr, x) == \E k \in 1..Len(arr) : arr[k] = x

\* decimal digits of a positive number, used for generated ids
Digit(d) ==
    CASE d = 0 -> "0" [] d = 1 -> "1" [] d = 2 -> "2" [] d = 3 -> "3"
      [] d = 4 -> "4" [] d = 5 -> "5" [] d = 6 -> "6" [] d = 7 -> "7"
      [] d = 8 -> "8" [] OTHER -> "9"

RECURSIVE Decimal(_)
Decimal(n) == IF n < 10 THEN <<Digit(n)>> ELSE Decimal(n \div 10) \o <<Digit(n % 10)>>

(***************************************************************************)
(* Map (id -> entity).  The entities are shared between the array and the  *)
(* Map, so an entry is the position of the entity in its array.  Entries   *)
(* are kept in insertion order of the keys; setting an existing key keeps  *)
(* its place and replaces its value.                                       *)
(***************************************************************************)
\* variant: a key that is already present keeps its first value
MapSetKeepFirst(m, arr, n) ==
    IF \E k \in 1..Len(m) : arr[m[k]].id = arr[n].id THEN m ELSE Append(m, n)

MapSet(m, arr, n) ==
    IF \E k \in 1..Len(m) : arr[m[k]].id = arr[n].id
    THEN [k \in 1..Len(m) |-> IF arr[m[k]].id = arr[n].id THEN n ELSE m[k]]
    ELSE Append(m, n)

RECURSIVE MapUpTo(_, _)
MapUpTo(arr, n) == IF n = 0 THEN <<>> ELSE MapSet(MapUpTo(arr, n - 1), arr, n)

\* new Map(arr.map(x => [x.id, x]))
NewMap(arr) == MapUpTo(arr, Len(arr))

MapHas(m, arr, key) == \E k \in 1..Len(m) : arr[m[k]].id = key

\* position in arr of the entity the Map holds for key (the key is present)
MapGet(m, arr, key) == m[CHOOSE k \in 1..Len(m) : arr[m[k]].id = key]

(***************************************************************************)
(* Entity Resolver: state-name backfill (generateHTML, "Add state names    *)
(* to cities")                                                             *)
(***************************************************************************)
\* the lookup made with the city's own id instead of its state_id
BackfillCityByOwnId(city, sts, stMap) ==
    IF Truthy(city.id) /\ MapHas(stMap, sts, city.id)
    THEN [city EXCEPT !.state_name = sts[MapGet(stMap, sts, city.id)].state]
    ELSE city

BackfillCity(city, sts, stMap) ==
    IF Truthy(city.state_id) /\ MapHas(stMap, sts, city.state_id)
    THEN [city EXCEPT !.state_name = sts[MapGet(stMap, sts, city.state_id)].state]
    ELSE city

Backfill(cts, sts, stMap) == [n \in 1..Len(cts) |-> BackfillCity(cts[n], sts, stMap)]

(***************************************************************************)
(* Link Inference Engine (generateHTML, "Add city and state IDs to salons  *)
(* if missing")                                                            *)
(***************************************************************************)
\* addressParts = salon.address.split(',').map(part => part.trim())
\* variant: the segments compared as split, without trim()
AddressPartsUntrimmed(address) == Split(address)

AddressParts(address) ==
    LET raw == Split(address) IN [k \in 1..Len(raw) |-> Trim(raw[k])]

\* for (const [id, x] of map.entries()) if (x[field].toLowerCase() ===
\* name.toLowerCase()) { ...; break }: position of the first match, or 0
\* the comparison made without toLowerCase
FindByNameCaseSensitive(m, arr, field, name) ==
    LET hits == {k \in 1..Len(m) : arr[m[k]][field] = name}
    IN  IF hits = {} THEN 0
        ELSE m[CHOOSE k \in hits : \A h \in hits : k <= h]

FindByName(m, arr, field, name) ==
    LET hits == {k \in 1..Len(m) : ToLowerCase(arr[m[k]][field]) = ToLowerCase(name)}
    IN  IF hits = {} THEN 0
        ELSE m[CHOOSE k \in hits : \A h \in hits : k <= h]

\* variant: inference attempted as soon as one of the two ids is missing
InferTriggerEitherMissing(salon) ==
    Truthy(salon.address) /\ ~(Truthy(salon.city_id) /\ Truthy(salon.state_id))

InferTrigger(salon) ==
    Truthy(salon.address) /\ ~Truthy(salon.city_id) /\ ~Truthy(salon.state_id)

\* the inference written to fill whichever id is missing, the state search
\* chained to the city search with else-if
InferSalonElseIf(salon, cts, ctMap, sts, stMap) ==
    IF Truthy(salon.address) /\ (~Truthy(salon.city_id) \/ ~Truthy(salon.state_id))
    THEN LET addressParts == AddressParts(salon.address)
         IN  IF Len(addressParts) >= 3
             THEN LET cityName == addressParts[Len(addressParts) - 2]
                      stateName == addressParts[Len(addressParts) - 1]
                      c == FindByName(ctMap, cts, "city", cityName)
                      st == FindByName(stMap, sts, "state", stateName)
                  IN  IF ~Truthy(salon.city_id)
                      THEN [salon EXCEPT
                              !.city_id = IF c # 0 THEN cts[c].id ELSE @,
                              !.city_name = IF c # 0 THEN cts[c].city ELSE @]
                      ELSE [salon EXCEPT
                              !.state_id = IF st # 0 THEN sts[st].id ELSE @,
                              !.state_name = IF st # 0 THEN sts[st].state ELSE @]
             ELSE salon
    ELSE salon

InferSalon(salon, cts, ctMap, sts, stMap) ==
    IF InferTrigger(salon)
    THEN LET addressParts == AddressParts(salon.address)
         IN  IF Len(addressParts) >= 3
             THEN LET cityName == addressParts[Len(addressParts) - 2]
                      stateName == addressParts[Len(addressParts) - 1]
                      c == FindByName(ctMap, cts, "city", cityName)
                      st == FindByName(stMap, sts, "state", stateName)
                  IN  [salon EXCEPT
                         !.city_id = IF c # 0 THEN cts[c].id ELSE @,
                         !.city_name = IF c # 0 THEN cts[c].city ELSE @,
                         !.state_id = IF st # 0 THEN sts[st].id ELSE @,
                         !.state_name = IF st # 0 THEN sts[st].state ELSE @]
             ELSE salon
    ELSE salon

Infer(sls, cts, ctMap, sts, stMap) ==
    [n \in 1..Len(sls) |-> InferSalon(sls[n], cts, ctMap, sts, stMap)]

(***************************************************************************)
(* Aggregation Engine (generateHTML, "Count salons per city, state, and    *)
(* category" and "Count cities per state")                                 *)
(***************************************************************************)
\* (x.count || 0) + 1
Incr(count) == << (IF count = NoCount THEN 0 ELSE count[1]) + 1 >>

\* the value of a count field as the code reads it: count || 0
CountOf(count) == IF count = NoCount THEN 0 ELSE count[1]

\* the city counted for a salon that names it, too
CountCityWithNameFallback(cts, ctMap, salon) ==
    IF Truthy(salon.city_id) /\ MapHas(ctMap, cts, salon.city_id)
    THEN [cts EXCEPT ![MapGet(ctMap, cts, salon.city_id)].salon_count = Incr(@)]
    ELSE IF Truthy(salon.city_name)
            /\ FindByName(ctMap, cts, "city", salon.city_name) # 0
    THEN [cts EXCEPT ![FindByName(ctMap, cts, "city", salon.city_name)].salon_count
                        = Incr(@)]
    ELSE cts

CountCity(cts, ctMap, salon) ==
    IF Truthy(salon.city_id) /\ MapHas(ctMap, cts, salon.city_id)
    THEN [cts EXCEPT ![MapGet(ctMap, cts, salon.city_id)].salon_count = Incr(@)]
    ELSE cts

\* the state counted under the salon's city_id
CountStateByCityId(sts, stMap, salon) ==
    IF Truthy(salon.city_id) /\ MapHas(stMap, sts, salon.city_id)
    THEN [sts EXCEPT ![MapGet(stMap, sts, salon.city_id)].salon_count = Incr(@)]
    ELSE sts

CountState(sts, stMap, salon) ==
    IF Truthy(salon.state_id) /\ MapHas(stMap, sts, salon.state_id)
    THEN [sts EXCEPT ![MapGet(stMap, sts, salon.state_id)].salon_count = Incr(@)]
    ELSE sts

CountCategoryId(cats, catMap, categoryId) ==
    IF MapHas(catMap, cats, categoryId)
    THEN [cats EXCEPT ![MapGet(catMap, cats, categoryId)].salon_count = Incr(@)]
    ELSE cats

RECURSIVE CountCategoryIds(_, _, _, _)
CountCategoryIds(cats, catMap, ids, n) ==
    IF n = 0 THEN cats
    ELSE CountCategoryId(CountCategoryIds(cats, catMap, ids, n - 1), catMap, ids[n])

\* variant: a category counted once per salon that lists it
RECURSIVE CountFirstListings(_, _, _, _)
CountFirstListings(cats, catMap, ids, n) ==
    IF n = 0 THEN cats
    ELSE LET before == CountFirstListings(cats, catMap, ids, n - 1)
         IN  IF \E j \in 1..(n - 1) : ids[j] = ids[n] THEN before
             ELSE CountCategoryId(before, catMap, ids[n])

CountCategoriesOncePerSalon(cats, catMap, salon) ==
    IF Truthy(salon.category_ids)
    THEN LET ids == Split(salon.category_ids)
         IN  CountFirstListings(cats, catMap, ids, Len(ids))
    ELSE cats

CountCategories(cats, catMap, salon) ==
    IF Truthy(salon.category_ids)
    THEN LET ids == Split(salon.category_ids)
         IN  CountCategoryIds(cats, catMap, ids, Len(ids))
    ELSE cats

\* one call of the forEach callback: acc holds the three arrays
CountSalon(acc, ctMap, stMap, catMap, salon) ==
    [cities |-> CountCity(acc.cities, ctMap, salon),
     states |-> CountState(acc.states, stMap, salon),
     categories |-> CountCategories(acc.categories, catMap, salon)]

\* beautySalons.forEach over salons lo..hi in input order.  The range is
\* halved, and acc is evaluated on entry (DOMAIN acc), so that the evaluation
\* does not nest one level per salon.
RECURSIVE CountSalonsRange(_, _, _, _, _, _, _)
CountSalonsRange(acc, sls, ctMap, stMap, catMap, lo, hi) ==
    IF lo > hi \/ DOMAIN acc = {} THEN acc
    ELSE IF lo = hi THEN CountSalon(acc, ctMap, stMap, catMap, sls[lo])
    ELSE LET mid == (lo + hi) \div 2
             left == CountSalonsRange(acc, sls, ctMap, stMap, catMap, lo, mid)
         IN  CountSalonsRange(left, sls, ctMap, stMap, catMap, mid + 1, hi)

CountAllSalons(sls, cts, ctMap, sts, stMap, cats, catMap) ==
    CountSalonsRange([cities |-> cts, states |-> sts, categories |-> cats],
                     sls, ctMap, stMap, catMap, 1, Len(sls))

CountCityOfState(sts, stMap, city) ==
    IF Truthy(city.state_id) /\ MapHas(stMap, sts, city.state_id)
    THEN [sts EXCEPT ![MapGet(stMap, sts, city.state_id)].city_count = Incr(@)]
    ELSE sts

RECURSIVE CountCitiesUpTo(_, _, _, _)
CountCitiesUpTo(cts, sts, stMap, n) ==
    IF n = 0 THEN sts
    ELSE CountCityOfState(CountCitiesUpTo(cts, sts, stMap, n - 1), stMap, cts[n])

(***************************************************************************)
(* Projection Builder (generateHTML, "Process data for the frontend").     *)
(* The slug of a view is slugify(...) of fields the view also carries; it  *)
(* is not part of the model's views.                                       *)
(***************************************************************************)
ProcessSalon(salon) ==
    [id |-> salon.id,
     title |-> salon.title,
     address |-> salon.address,
     city_id |-> salon.city_id,
     city_name |-> salon.city_name,
     state_id |-> salon.state_id,
     state_name |-> salon.state_name,
     category_ids |-> SplitField(salon.category_ids),
     detail_keys |-> SplitField(salon.detail_keys),
     detail_values |-> SplitField(salon.detail_values),
     amenity_ids |-> SplitField(salon.amenity_ids),
     payment_ids |-> SplitField(salon.payment_ids),
     images |-> SplitField(salon.images)]

\* the ids of the kept elements in reverse order
FilterIdsReversed(arr, keep) ==
    LET places == [k \in 1..Len(arr) |-> k]
        Kept(k) == keep[k]
        kept == SelectSeq(places, Kept)
    IN  [k \in 1..Len(kept) |-> arr[kept[Len(kept) + 1 - k]].id]

\* arr.filter(callback).map(x => x.id), keep[k] being the callback's result
\* for arr[k]
FilterIds(arr, keep) ==
    LET places == [k \in 1..Len(arr) |-> k]
        Kept(k) == keep[k]
        kept == SelectSeq(places, Kept)
    IN  [k \in 1..Len(kept) |-> arr[kept[k]].id]

\* the filter callback of salonIdsForCity without its match by city_id
CityHasSalonByNameOnly(city, salon) ==
    IF Truthy(salon.city_name)
       /\ ToLowerCase(salon.city_name) = ToLowerCase(city.city) THEN TRUE
    ELSE FALSE

\* the filter callback of salonIdsForCity
CityHasSalon(city, salon) ==
    IF Truthy(salon.city_id) /\ salon.city_id = city.id THEN TRUE
    ELSE IF Truthy(salon.city_name)
            /\ ToLowerCase(salon.city_name) = ToLowerCase(city.city) THEN TRUE
    ELSE FALSE

ProcessCity(city, pSalons) ==
    LET keep == [n \in 1..Len(pSalons) |-> CityHasSalon(city, pSalons[n])]
    IN  [id |-> city.id,
         city |-> city.city,
         state_id |-> city.state_id,
         state_name |-> city.state_name,
         salon_ids |-> FilterIds(pSalons, keep)]

\* the filter callback of salonIdsForState without the match through the
\* cities of the state
StateHasSalonNoCities(state, cityIdsForState, salon) ==
    IF Truthy(salon.state_id) /\ salon.state_id = state.id THEN TRUE
    ELSE IF Truthy(salon.state_name)
            /\ ToLowerCase(salon.state_name) = ToLowerCase(state.state) THEN TRUE
    ELSE FALSE

\* the filter callback of salonIdsForState
StateHasSalon(state, cityIdsForState, salon) ==
    IF Truthy(salon.state_id) /\ salon.state_id = state.id THEN TRUE
    ELSE IF Truthy(salon.state_name)
            /\ ToLowerCase(salon.state_name) = ToLowerCase(state.state) THEN TRUE
    ELSE IF Truthy(salon.city_id) /\ Includes(cityIdsForState, salon.city_id) THEN TRUE
    ELSE FALSE

\* variant: the cities of a state taken by its name
CityIdsForStateByName(state, pCities) ==
    FilterIds(pCities, [n \in 1..Len(pCities) |-> pCities[n].state_name = state.state])

CityIdsForState(state, pCities) ==
    FilterIds(pCities, [n \in 1..Len(pCities) |-> pCities[n].state_id = state.id])

ProcessState(state, pCities, pSalons) ==
    LET cityIdsForState == CityIdsForState(state, pCities)
        keep == [n \in 1..Len(pSalons) |->
                    StateHasSalon(state, cityIdsForState, pSalons[n])]
    IN  [id |-> state.id,
         state |-> state.state,
         city_ids |-> cityIdsForState,
         salon_ids |-> FilterIds(pSalons, keep)]

ProcessCategory(category, pSalons) ==
    LET keep == [n \in 1..Len(pSalons) |->
                    Includes(pSalons[n].category_ids, category.id)]
    IN  [id |-> category.id,
         category |-> category.category,
         salon_ids |-> FilterIds(pSalons, keep)]

(***************************************************************************)
(* Page Renderer: the membership filters recomputed for the city and the   *)
(* state pages                                                             *)
(***************************************************************************)
\* variant: the page filter without the match by name
CityPageHasSalonByIdOnly(city, salon) == salon.city_id = city.id

\* the filter callback of citySalons
CityPageHasSalon(city, salon) ==
    \/ salon.city_id = city.id
    \/ (Truthy(salon.city_name)
        /\ ToLowerCase(salon.city_name) = ToLowerCase(city.city))

\* citySalons
RenderCity(city, pSalons) ==
    FilterIds(pSalons, [n \in 1..Len(pSalons) |-> CityPageHasSalon(city, pSalons[n])])

\* the filter callback of stateSalons
StatePageHasSalon(state, stateCities, salon) ==
    \/ salon.state_id = state.id
    \/ (Truthy(salon.state_name)
        /\ ToLowerCase(salon.state_name) = ToLowerCase(state.state))
    \/ (Truthy(salon.city_id) /\ Includes(stateCities, salon.city_id))

\* stateCities and stateSalons
RenderState(state, pCities, pSalons) ==
    LET stateCities ==
            FilterIds(pCities, [n \in 1..Len(pCities) |-> pCities[n].state_id = state.id])
    IN  [cities |-> stateCities,
         salons |-> FilterIds(pSalons, [n \in 1..Len(pSalons) |->
                        StatePageHasSalon(state, stateCities, pSalons[n])])]

(***************************************************************************)
(* Sitemap Generator                                                       *)
(***************************************************************************)
\* entries per company sitemap file
SITEMAP_CHUNK == 200

\* the slice taken one entry short
SliceShort(arr, from) ==
    SubSeq(arr, from + 1, IF from + SITEMAP_CHUNK - 1 < Len(arr)
                          THEN from + SITEMAP_CHUNK - 1 ELSE Len(arr))

\* salons.slice(from, from + SITEMAP_CHUNK), from counted from 0
Slice(arr, from) ==
    SubSeq(arr, from + 1, IF from + SITEMAP_CHUNK < Len(arr)
                          THEN from + SITEMAP_CHUNK ELSE Len(arr))

\* Math.floor(from / 200) + 1
SitemapIndex(from) == (from \div SITEMAP_CHUNK) + 1

(***************************************************************************)
(* Inputs: the rows of the four CSV members of the archive                 *)
(***************************************************************************)
SeqsUpTo(S, n) == UNION {[1..k -> S] : k \in 0..n}

I1 == <<"1">>
I2 == <<"2">>

SalonRow(address, city_id, city_name, state_id, state_name, category_ids) ==
    [id |-> Undefined, title |-> <<"x">>, address |-> address,
     city_id |-> city_id, city_name |-> city_name,
     state_id |-> state_id, state_name |-> state_name,
     category_ids |-> category_ids, detail_keys |-> Undefined,
     detail_values |-> Undefined, amenity_ids |-> Undefined,
     payment_ids |-> Undefined, images |-> Undefined]

CityRow(id, city, state_id, state_name) ==
    [id |-> id, city |-> city, state_id |-> state_id, state_name |-> state_name,
     salon_count |-> NoCount]

StateRow(id, state) ==
    [id |-> id, state |-> state, city_count |-> NoCount, salon_count |-> NoCount]

CategoryRow(id, category) == [id |-> id, category |-> category, salon_count |-> NoCount]

\* the rows of beauty_salon.csv carry their ids "1", "2", ... in input order
Numbered(rows) == [n \in 1..Len(rows) |-> [rows[n] EXCEPT !.id = Decimal(n)]]

\* two states whose names differ in case only, a second row with the id "1",
\* and a row whose id cell is empty
StateUpper == StateRow(I1, <<"A">>)

StateLower == StateRow(I2, <<"a">>)

StateSameId == StateRow(I1, <<"B">>)

StateNoId == StateRow(<<>>, <<"B">>)

StateRows == {StateUpper, StateLower, StateSameId, StateNoId}

\* city.csv may carry a state_name column; "C" and "c" differ in case only
CityUpper == CityRow(I1, <<"C">>, I1, Undefined)

CityLower == CityRow(I2, <<"c">>, I2, <<"B">>)

CitySameId == CityRow(I1, <<"D">>, Undefined, Undefined)

CityNoId == CityRow(<<>>, <<"D">>, <<>>, Undefined)

CityRows == {CityUpper, CityLower, CitySameId, CityNoId}

CategoryRows ==
    {CategoryRow(I1, <<"K">>), CategoryRow(I2, <<"L">>), CategoryRow(I1, <<"M">>),
     CategoryRow(<<>>, <<"M">>)}

\* "x, C,a ,x"  "c,B,x"  "C,a"  "x,D,x,x"
Addresses ==
    {Undefined, <<>>,
     <<"x", ",", " ", "C", ",", "a", " ", ",", "x">>,
     <<"c", ",", "B", ",", "x">>,
     <<"C", ",", "a">>,
     <<"x", ",", "D", ",", "x", ",", "x">>}

MatchingAddress == <<"x", ",", " ", "C", ",", "a", " ", ",", "x">>

\* the steps of a run, in program order
Phases ==
    <<"read_salons", "read_cities", "read_states", "read_categories", "index",
      "backfill", "infer", "count_salons", "count_cities", "project_salons",
      "project_cities", "project_states", "project_categories", "write_json",
      "render_companies", "render_cities", "render_states", "company_sitemaps",
      "done">>

\* the members readCsvFromZip looks up, by the step that reads them
Member ==
    [read_salons |-> "beauty_salon.csv", read_cities |-> "city.csv",
     read_states |-> "state.csv", read_categories |-> "category.csv"]

AllMembers == {Member[step] : step \in DOMAIN Member}

\* the step, and the offset of the sitemap loop, at which something throws
NoFault == [at |-> "none", i |-> 0]

Archive(sls, cts, sts, cats) ==
    [salons |-> Numbered(sls), cities |-> cts, states |-> sts, categories |-> cats,
     members |-> AllMembers, fault |-> NoFault]

\* the state-name backfill: every list of states, next to cities that refer
\* to a state by "1", by "2" with a name already loaded, by an empty cell or
\* not at all
BackfillCityLists ==
    {<<CityUpper>>, <<CityUpper, CityLower>>, <<CityLower, CityNoId>>,
     <<CityNoId, CityUpper>>, <<CitySameId, CityLower>>}

BackfillInputs ==
    {Archive(<<SalonRow(MatchingAddress, Undefined, Undefined, Undefined, Undefined,
                        Undefined)>>, cts, sts, <<>>) :
        cts \in BackfillCityLists, sts \in SeqsUpTo(StateRows, MaxStates)}

\* one salon: every address with no id and no name, then a matching and a
\* non-matching address with names already loaded, then a matching address
\* with every combination of ids already loaded
LinkSalonRows ==
    {SalonRow(a, Undefined, Undefined, Undefined, Undefined, Undefined) : a \in Addresses}
    \cup {SalonRow(a, Undefined, <<"c">>, Undefined, <<"A">>, Undefined) :
            a \in {MatchingAddress, <<"x", ",", "D", ",", "x", ",", "x">>}}
    \cup {SalonRow(MatchingAddress, ci, Undefined, si, Undefined, Undefined) :
            ci \in {<<>>, I1}, si \in {Undefined, I2}}

LinkCityRows == {CityUpper, CityLower, CitySameId}

LinkStateLists ==
    {<<>>, <<StateSameId>>, <<StateUpper, StateLower>>, <<StateLower, StateUpper>>,
     <<StateUpper, StateSameId>>}

LinkInputs ==
    {Archive(<<s>>, cts, sts, <<>>) :
        s \in LinkSalonRows, cts \in SeqsUpTo(LinkCityRows, MaxCities),
        sts \in LinkStateLists}

\* several salons: linked by ids (to a city of another state), by address,
\* by names only with empty id cells, or by ids and by the names of others
CountSalonRows ==
    {SalonRow(Undefined, I1, Undefined, I2, Undefined, Undefined),
     SalonRow(MatchingAddress, Undefined, Undefined, Undefined, Undefined, Undefined),
     SalonRow(Undefined, <<>>, <<"c">>, <<>>, <<"A">>, Undefined),
     SalonRow(Undefined, I2, <<"D">>, I1, <<"a">>, Undefined)}

CountCityLists ==
    {<<>>, <<CityUpper, CityLower>>, <<CityLower, CityUpper>>,
     <<CityUpper, CitySameId>>, <<CityNoId, CityLower>>}

CountStateLists ==
    {<<>>, <<StateUpper, StateLower>>, <<StateLower, StateUpper>>,
     <<StateUpper, StateSameId>>, <<StateNoId, StateLower>>}

CountInputs ==
    {Archive(sls, cts, sts, <<>>) :
        sls \in SeqsUpTo(CountSalonRows, MaxSalons),
        cts \in CountCityLists, sts \in CountStateLists}

\* salons that list a category twice, two categories, or an empty segment
CategorySalonRows ==
    {SalonRow(Undefined, I1, Undefined, Undefined, Undefined, c) :
        c \in {<<"1", ",", "1">>, <<"1", ",", "2">>, <<"3", ",", ",", "1">>}}

CategoryInputs ==
    {Archive(sls, <<>>, <<>>, cats) :
        sls \in SeqsUpTo(CategorySalonRows, MaxSalons),
        cats \in SeqsUpTo(CategoryRows, MaxCategories)}

\* absent, empty, "1"  "1,1"  "1,2"  "3,,1"  "1,2,3"
MultiValues ==
    <<Undefined, <<>>, <<"1">>, <<"1", ",", "1">>, <<"1", ",", "2">>,
      <<"3", ",", ",", "1">>, <<"1", ",", "2", ",", "3">> >>

\* the k-th value and its successors, one in each multi-value field
MultiValueRow(k) ==
    LET V(d) == MultiValues[((k + d - 1) % Len(MultiValues)) + 1]
    IN  [SalonRow(Undefined, I1, Undefined, Undefined, Undefined, V(0))
            EXCEPT !.detail_keys = V(1), !.detail_values = V(2),
                   !.amenity_ids = V(3), !.payment_ids = V(4), !.images = V(5)]

MultiValueInputs ==
    {Archive(<<MultiValueRow(k)>>, <<>>, <<>>, <<CategoryRow(I1, <<"K">>)>>) :
        k \in 1..Len(MultiValues)}

\* the end-to-end example: "Springfield", "Illinois" and the address
\* "123 Main St, Springfield, Illinois, USA"
Springfield ==
    <<"S", "p", "r", "i", "n", "g", "f", "i", "e", "l", "d">>

Illinois ==
    <<"I", "l", "l", "i", "n", "o", "i", "s">>

MainStreet ==
    <<"1", "2", "3", " ", "M", "a", "i", "n", " ", "S", "t", ",", " ", "S",
      "p", "r", "i", "n", "g", "f", "i", "e", "l", "d", ",", " ", "I", "l",
      "l", "i", "n", "o", "i", "s", ",", " ", "U", "S", "A">>

\* salon A carries both ids, salon B only the address
Fixture ==
    Archive(<<SalonRow(Undefined, I1, Undefined, I1, Undefined, I1),
              SalonRow(MainStreet, Undefined, Undefined, Undefined, Undefined, I1)>>,
            <<CityRow(I1, Springfield, I1, Undefined)>>,
            <<StateRow(I1, Illinois)>>,
            <<CategoryRow(I1, <<"K">>)>>)

FixtureInputs == {Fixture}

\* runs in which a step throws: a member is missing from the archive, or a
\* fault strikes at one step (at either offset of the sitemap loop)
FaultBase ==
    Archive(<<SalonRow(Undefined, I1, Undefined, I2, Undefined, <<"1">>),
              SalonRow(MatchingAddress, Undefined, Undefined, Undefined, Undefined,
                       Undefined)>>,
            <<CityUpper, CityLower>>, <<StateUpper, StateLower>>,
            <<CategoryRow(I1, <<"K">>)>>)

Faults ==
    {[at |-> Phases[k], i |-> 0] : k \in 1..(Len(Phases) - 1)}
    \cup {[at |-> "company_sitemaps", i |-> SITEMAP_CHUNK]}

FaultInputs ==
    {[FaultBase EXCEPT !.fault = f] : f \in Faults}
    \cup {[FaultBase EXCEPT !.members = ms] : ms \in (SUBSET AllMembers) \ {AllMembers}}
    \cup {FaultBase}

\* n salons that carry nothing but their id
SitemapArchive(k) ==
    Archive([n \in 1..k |-> SalonRow(Undefined, Undefined, Undefined, Undefined,
                                     Undefined, Undefined)], <<>>, <<>>, <<>>)

\* every number of salons, and the largest with a write that throws at one
\* offset of the loop
SitemapInputs ==
    {SitemapArchive(k) : k \in 0..MaxSitemapSalons}
    \cup {[SitemapArchive(MaxSitemapSalons)
             EXCEPT !.fault = [at |-> "company_sitemaps", i |-> SITEMAP_CHUNK * j]] :
            j \in 0..3}

(***************************************************************************)
(* generateHTML                                                            *)
(***************************************************************************)
Start(archive) ==
    /\ zip = archive
    /\ pc = "read_salons"
    /\ beautySalons = <<>>
    /\ cities = <<>>
    /\ states = <<>>
    /\ categories = <<>>
    /\ citiesMap = <<>>
    /\ statesMap = <<>>
    /\ categoriesMap = <<>>
    /\ processedSalons = <<>>
    /\ processedCities = <<>>
    /\ processedStates = <<>>
    /\ processedCategories = <<>>
    /\ written = {}
    /\ cityPages = <<>>
    /\ statePages = <<>>
    /\ i = 0
    /\ companySitemaps = <<>>
    /\ sitemapFiles = <<>>
    /\ exitCode = NoExit
    /\ logged = <<>>

\* the step at pc throws: a member is not in the archive, or the fault of
\* this run strikes
Throws ==
    \/ pc \in DOMAIN Member /\ Member[pc] \notin zip.members
    \/ zip.fault.at = pc /\ zip.fault.i = i

\* variant: the step goes on although it threw (an error swallowed where it
\* is logged)
CompletesDespiteThrow == exitCode = NoExit

\* the try block is still running and the step at pc completes
Completes == exitCode = NoExit /\ ~Throws

Inputs == BackfillInputs \cup LinkInputs \cup CountInputs \cup CategoryInputs
              \cup MultiValueInputs \cup FaultInputs
              \cup FixtureInputs

Init == \E archive \in Inputs : Start(archive)

InitSitemap == \E archive \in SitemapInputs : Start(archive)

\* readCsvFromZip(zipPath, 'beauty_salon.csv')
ReadSalons ==
    /\ pc = "read_salons"
    /\ Completes
    /\ beautySalons' = zip.salons
    /\ pc' = "read_cities"
    /\ UNCHANGED <<zip, exitCode, logged, cities, states, categories, citiesMap, statesMap,
                   categoriesMap, processedSalons, processedCities, processedStates,
                   processedCategories, written, cityPages, statePages, i,
                   companySitemaps, sitemapFiles>>

\* readCsvFromZip(zipPath, 'city.csv')
ReadCities ==
    /\ pc = "read_cities"
    /\ Completes
    /\ cities' = zip.cities
    /\ pc' = "read_states"
    /\ UNCHANGED <<zip, exitCode, logged, beautySalons, states, categories, citiesMap, statesMap,
                   categoriesMap, processedSalons, processedCities, processedStates,
                   processedCategories, written, cityPages, statePages, i,
                   companySitemaps, sitemapFiles>>

\* readCsvFromZip(zipPath, 'state.csv')
ReadStates ==
    /\ pc = "read_states"
    /\ Completes
    /\ states' = zip.states
    /\ pc' = "read_categories"
    /\ UNCHANGED <<zip, exitCode, logged, beautySalons, cities, categories, citiesMap, statesMap,
                   categoriesMap, processedSalons, processedCities, processedStates,
                   processedCategories, written, cityPages, statePages, i,
                   companySitemaps, sitemapFiles>>

\* readCsvFromZip(zipPath, 'category.csv')
ReadCategories ==
    /\ pc = "read_categories"
    /\ Completes
    /\ categories' = zip.categories
    /\ pc' = "index"
    /\ UNCHANGED <<zip, exitCode, logged, beautySalons, cities, states, citiesMap, statesMap,
                   categoriesMap, processedSalons, processedCities, processedStates,
                   processedCategories, written, cityPages, statePages, i,
                   companySitemaps, sitemapFiles>>

\* "Create maps for easy lookups"
BuildMaps ==
    /\ pc = "index"
    /\ Completes
    /\ citiesMap' = NewMap(cities)
    /\ statesMap' = NewMap(states)
    /\ categoriesMap' = NewMap(categories)
    /\ pc' = "backfill"
    /\ UNCHANGED <<zip, exitCode, logged, beautySalons, cities, states, categories,
                   processedSalons, processedCities, processedStates,
                   processedCategories, written, cityPages, statePages, i,
                   companySitemaps, sitemapFiles>>

\* "Add state names to cities"
AddStateNames ==
    /\ pc = "backfill"
    /\ Completes
    /\ cities' = Backfill(cities, states, statesMap)
    /\ pc' = "infer"
    /\ UNCHANGED <<zip, exitCode, logged, beautySalons, states, categories, citiesMap, statesMap,
                   categoriesMap, processedSalons, processedCities, processedStates,
                   processedCategories, written, cityPages, statePages, i,
                   companySitemaps, sitemapFiles>>

\* "Add city and state IDs to salons if missing"
InferLinks ==
    /\ pc = "infer"
    /\ Completes
    /\ beautySalons' = Infer(beautySalons, cities, citiesMap, states, statesMap)
    /\ pc' = "count_salons"
    /\ UNCHANGED <<zip, exitCode, logged, cities, states, categories, citiesMap, statesMap,
                   categoriesMap, processedSalons, processedCities, processedStates,
                   processedCategories, written, cityPages, statePages, i,
                   companySitemaps, sitemapFiles>>

\* "Count salons per city, state, and category"
CountSalons ==
    /\ pc = "count_salons"
    /\ Completes
    /\ LET counted == CountAllSalons(beautySalons, cities, citiesMap, states,
                                     statesMap, categories, categoriesMap)
       IN  /\ cities' = counted.cities
           /\ states' = counted.states
           /\ categories' = counted.categories
    /\ pc' = "count_cities"
    /\ UNCHANGED <<zip, exitCode, logged, beautySalons, citiesMap, statesMap,
                   categoriesMap, processedSalons, processedCities, processedStates,
                   processedCategories, written, cityPages, statePages, i,
                   companySitemaps, sitemapFiles>>

\* "Count cities per state"
CountCities ==
    /\ pc = "count_cities"
    /\ Completes
    /\ states' = CountCitiesUpTo(cities, states, statesMap, Len(cities))
    /\ pc' = "project_salons"
    /\ UNCHANGED <<zip, exitCode, logged, beautySalons, cities, categories, citiesMap, statesMap,
                   categoriesMap, processedSalons, processedCities, processedStates,
                   processedCategories, written, cityPages, statePages, i,
                   companySitemaps, sitemapFiles>>

\* processedSalons = beautySalons.map(...)
ProjectSalons ==
    /\ pc = "project_salons"
    /\ Completes
    /\ processedSalons' = [n \in 1..Len(beautySalons) |-> ProcessSalon(beautySalons[n])]
    /\ pc' = "project_cities"
    /\ UNCHANGED <<zip, exitCode, logged, beautySalons, cities, states, categories, citiesMap,
                   statesMap, categoriesMap, processedCities, processedStates,
                   processedCategories, written, cityPages, statePages, i,
                   companySitemaps, sitemapFiles>>

\* processedCities = cities.map(...)
ProjectCities ==
    /\ pc = "project_cities"
    /\ Completes
    /\ processedCities' = [n \in 1..Len(cities) |-> ProcessCity(cities[n], processedSalons)]
    /\ pc' = "project_states"
    /\ UNCHANGED <<zip, exitCode, logged, beautySalons, cities, states, categories, citiesMap,
                   statesMap, categoriesMap, processedSalons, processedStates,
                   processedCategories, written, cityPages, statePages, i,
                   companySitemaps, sitemapFiles>>

\* processedStates = states.map(...)
ProjectStates ==
    /\ pc = "project_states"
    /\ Completes
    /\ processedStates' =
          [n \in 1..Len(states) |-> ProcessState(states[n], processedCities, processedSalons)]
    /\ pc' = "project_categories"
    /\ UNCHANGED <<zip, exitCode, logged, beautySalons, cities, states, categories, citiesMap,
                   statesMap, categoriesMap, processedSalons, processedCities,
                   processedCategories, written, cityPages, statePages, i,
                   companySitemaps, sitemapFiles>>

\* processedCategories = categories.map(...)
ProjectCategories ==
    /\ pc = "project_categories"
    /\ Completes
    /\ processedCategories' =
          [n \in 1..Len(categories) |-> ProcessCategory(categories[n], processedSalons)]
    /\ pc' = "write_json"
    /\ UNCHANGED <<zip, exitCode, logged, beautySalons, cities, states, categories, citiesMap,
                   statesMap, categoriesMap, processedSalons, processedCities,
                   processedStates, written, cityPages, statePages, i,
                   companySitemaps, sitemapFiles>>

\* variant: the JSON files written as soon as the salons are projected
WriteJsonEarly ==
    /\ pc = "project_cities"
    /\ Completes
    /\ written' = written \cup {"data/salons.json", "data/cities.json",
                               "data/states.json", "data/categories.json"}
    /\ UNCHANGED <<zip, exitCode, logged, pc, beautySalons, cities, states,
                   categories, citiesMap, statesMap, categoriesMap, processedSalons,
                   processedCities, processedStates, processedCategories, cityPages,
                   statePages, i, companySitemaps, sitemapFiles>>

\* "Save processed data as JSON for frontend use"
WriteJson ==
    /\ pc = "write_json"
    /\ Completes
    /\ written' = written \cup {"data/salons.json", "data/cities.json",
                               "data/states.json", "data/categories.json"}
    /\ pc' = "render_companies"
    /\ UNCHANGED <<zip, exitCode, logged, beautySalons, cities, states, categories, citiesMap,
                   statesMap, categoriesMap, processedSalons, processedCities,
                   processedStates, processedCategories, cityPages, statePages, i,
                   companySitemaps, sitemapFiles>>

\* "Generate HTML for beauty salon pages"
RenderCompanies ==
    /\ pc = "render_companies"
    /\ Completes
    /\ written' = written \cup {"companies"}
    /\ pc' = "render_cities"
    /\ UNCHANGED <<zip, exitCode, logged, beautySalons, cities, states, categories, citiesMap,
                   statesMap, categoriesMap, processedSalons, processedCities,
                   processedStates, processedCategories, cityPages, statePages, i,
                   companySitemaps, sitemapFiles>>

\* "Generate HTML for city pages"
RenderCities ==
    /\ pc = "render_cities"
    /\ Completes
    /\ cityPages' = [n \in 1..Len(processedCities) |->
                        RenderCity(processedCities[n], processedSalons)]
    /\ written' = written \cup {"cities"}
    /\ pc' = "render_states"
    /\ UNCHANGED <<zip, exitCode, logged, beautySalons, cities, states, categories, citiesMap,
                   statesMap, categoriesMap, processedSalons, processedCities,
                   processedStates, processedCategories, statePages, i,
                   companySitemaps, sitemapFiles>>

\* "Generate HTML for state pages"
RenderStates ==
    /\ pc = "render_states"
    /\ Completes
    /\ statePages' = [n \in 1..Len(processedStates) |->
                        RenderState(processedStates[n], processedCities, processedSalons)]
    /\ written' = written \cup {"states"}
    /\ pc' = "company_sitemaps"
    /\ UNCHANGED <<zip, exitCode, logged, beautySalons, cities, states, categories, citiesMap,
                   statesMap, categoriesMap, processedSalons, processedCities,
                   processedStates, processedCategories, cityPages, i,
                   companySitemaps, sitemapFiles>>

(***************************************************************************)
(* generateSitemaps(processedSalons, processedCities, processedStates, ..) *)
(***************************************************************************)
\* one iteration of for (let i = 0; i < salons.length; i += 200)
WriteCompanySitemap ==
    /\ pc = "company_sitemaps"
    /\ Completes
    /\ i < Len(processedSalons)
    /\ LET chunk == Slice(processedSalons, i)
           sitemapIndex == SitemapIndex(i)
       IN  /\ sitemapFiles' = Append(sitemapFiles,
                                     [index |-> sitemapIndex,
                                      entries |-> [k \in 1..Len(chunk) |-> chunk[k].id]])
           /\ companySitemaps' = Append(companySitemaps, sitemapIndex)
    /\ i' = i + SITEMAP_CHUNK
    /\ UNCHANGED <<zip, exitCode, logged, pc, beautySalons, cities, states, categories, citiesMap,
                   statesMap, categoriesMap, processedSalons, processedCities,
                   processedStates, processedCategories, written, cityPages,
                   statePages>>

\* the city sitemap, the state sitemap, the sitemap index and the HTML sitemap
WriteOtherSitemaps ==
    /\ pc = "company_sitemaps"
    /\ Completes
    /\ ~(i < Len(processedSalons))
    /\ written' = written \cup {"sitemaps/cities-sitemap.xml",
                               "sitemaps/states-sitemap.xml", "sitemap.xml",
                               "sitemap/index.html"}
    /\ pc' = "done"
    /\ exitCode' = <<0>>
    /\ UNCHANGED <<zip, logged, beautySalons, cities, states, categories, citiesMap,
                   statesMap, categoriesMap, processedSalons, processedCities,
                   processedStates, processedCategories, cityPages, statePages, i,
                   companySitemaps, sitemapFiles>>

\* catch (error) { console.error(...); process.exit(1) }; a throw inside
\* readCsvFromZip is logged there first and thrown again
Catch ==
    /\ exitCode = NoExit
    /\ Throws
    /\ logged' = logged
                    \o (IF pc \in DOMAIN Member
                        THEN <<"Error reading " \o Member[pc] \o " from zip:">>
                        ELSE <<>>)
                    \o <<"Error generating HTML:">>
    /\ exitCode' = <<1>>
    /\ UNCHANGED <<zip, pc, beautySalons, cities, states, categories, citiesMap,
                   statesMap, categoriesMap, processedSalons, processedCities,
                   processedStates, processedCategories, written, cityPages,
                   statePages, i, companySitemaps, sitemapFiles>>

Next ==
    \/ ReadSalons
    \/ ReadCities
    \/ ReadStates
    \/ ReadCategories
    \/ BuildMaps
    \/ AddStateNames
    \/ InferLinks
    \/ CountSalons
    \/ CountCities
    \/ ProjectSalons
    \/ ProjectCities
    \/ ProjectStates
    \/ ProjectCategories
    \/ WriteJson
    \/ RenderCompanies
    \/ RenderCities
    \/ RenderStates
    \/ WriteCompanySitemap
    \/ WriteOtherSitemaps
    \/ Catch

Spec == Init /\ [][Next]_vars

SpecSitemap == InitSitemap /\ [][Next]_vars

(***************************************************************************)
(* Vocabulary of the properties                                            *)
(***************************************************************************)
PhaseNo(p) == CHOOSE k \in 1..Len(Phases) : Phases[k] = p

\* the phase p has been completed
Past(p) == PhaseNo(pc) > PhaseNo(p)

\* the index of a kind holds, for each id, the last row that carries it
Held(arr, p) == \A q \in 1..Len(arr) : arr[q].id = arr[p].id => q <= p

\* place of an id among the keys of the index: the first row that carries it
KeyRank(arr, p) == CHOOSE q \in 1..Len(arr) : arr[q].id = arr[p].id
                                             /\ \A r \in 1..(q - 1) : arr[r].id # arr[p].id

\* rows the index of a kind holds whose field name equals cand, case ignored
NameMatches(arr, field, cand) ==
    {p \in 1..Len(arr) : Held(arr, p)
                         /\ ToLowerCase(arr[p][field]) = ToLowerCase(cand)}

\* the first of a non-empty set of held rows, in insertion order of the index
FirstInIndex(arr, ps) == CHOOSE p \in ps : \A q \in ps : KeyRank(arr, p) <= KeyRank(arr, q)

\* the trimmed k-th segment from the end of a comma-separated string
SegmentFromEnd(str, k) == Trim(Split(str)[Len(Split(str)) + 1 - k])

(***************************************************************************)
(* C1  After the state-name backfill every city whose non-empty state_id   *)
(* is a key of the State index carries the name of the State the index     *)
(* holds for that id; every other city keeps state_name as loaded.         *)
(***************************************************************************)
C1_Backfill ==
    Past("backfill") =>
        \A n \in 1..Len(cities) :
            LET hit == {p \in 1..Len(states) :
                            Held(states, p) /\ states[p].id = cities[n].state_id}
            IN  IF cities[n].state_id # Undefined /\ cities[n].state_id # <<>> /\ hit # {}
                THEN \A p \in hit : cities[n].state_name = states[p].state
                ELSE cities[n].state_name = zip.cities[n].state_name

\* a city whose loaded state_name was replaced, next to one that kept it
C1_Witness ==
    /\ pc = "infer"
    /\ \E n \in 1..Len(cities) : cities[n].state_name # zip.cities[n].state_name
    /\ \E n \in 1..Len(cities) :
          /\ cities[n].state_id # Undefined
          /\ cities[n].state_name = zip.cities[n].state_name
    /\ \E p, q \in 1..Len(states) : states[p].id # states[q].id

(***************************************************************************)
(* C2  For a salon loaded with a non-empty address of at least three       *)
(* segments and neither id set, inference sets city_id and city_name to    *)
(* the first City of the index whose name equals the trimmed third         *)
(* segment from the end, case ignored, and leaves them as loaded when no   *)
(* City matches; the same, independently, for the State and the second     *)
(* segment from the end.  An id it sets is a key of the index.             *)
(***************************************************************************)
Inferable(row) ==
    /\ row.address # Undefined /\ row.address # <<>>
    /\ Len(Split(row.address)) >= 3
    /\ row.city_id \in {Undefined, <<>>}
    /\ row.state_id \in {Undefined, <<>>}

C2_LinkedTo(salon, row, idField, nameField, arr, field, cand) ==
    LET ps == NameMatches(arr, field, cand)
    IN  IF ps = {}
        THEN salon[idField] = row[idField] /\ salon[nameField] = row[nameField]
        ELSE /\ salon[idField] = arr[FirstInIndex(arr, ps)].id
             /\ salon[nameField] = arr[FirstInIndex(arr, ps)][field]
             /\ \E p \in 1..Len(arr) : arr[p].id = salon[idField]

C2_Inference ==
    Past("infer") =>
        \A n \in 1..Len(beautySalons) :
            Inferable(zip.salons[n]) =>
                /\ C2_LinkedTo(beautySalons[n], zip.salons[n], "city_id", "city_name",
                               cities, "city", SegmentFromEnd(zip.salons[n].address, 3))
                /\ C2_LinkedTo(beautySalons[n], zip.salons[n], "state_id", "state_name",
                               states, "state", SegmentFromEnd(zip.salons[n].address, 2))

\* a salon for which the city was matched and the state was not, with two
\* cities in the index whose names both match
C2_Witness ==
    /\ pc = "count_salons"
    /\ \E n \in 1..Len(beautySalons) :
          /\ Inferable(zip.salons[n])
          /\ beautySalons[n].city_id # zip.salons[n].city_id
          /\ beautySalons[n].state_id = zip.salons[n].state_id
          /\ Cardinality(NameMatches(cities, "city",
                                     SegmentFromEnd(zip.salons[n].address, 3))) = 2
          /\ states # <<>>

(***************************************************************************)
(* C3  Running the backfill and then the inference again on the entities   *)
(* they have annotated changes nothing.                                    *)
(***************************************************************************)
C3_Idempotent ==
    Past("infer") =>
        /\ Backfill(cities, states, statesMap) = cities
        /\ Infer(beautySalons, Backfill(cities, states, statesMap), citiesMap,
                 states, statesMap) = beautySalons

\* the first run matched the city only, or the state only
C3_Witness ==
    /\ pc = "count_salons"
    /\ \E n \in 1..Len(beautySalons) :
          /\ beautySalons[n].city_id # zip.salons[n].city_id
          /\ beautySalons[n].state_id = zip.salons[n].state_id
          /\ Len(states) = 2
    /\ \E n \in 1..Len(cities) : cities[n].state_name # zip.cities[n].state_name

(***************************************************************************)
(* C4  After the aggregation every City the index holds has salon_count    *)
(* equal to the number of salons whose non-empty city_id is its id; every  *)
(* State the index holds has salon_count equal to the number of salons     *)
(* whose non-empty state_id is its id, and city_count equal to the number  *)
(* of cities whose non-empty state_id is its id.  Names play no part.      *)
(***************************************************************************)
NonEmpty(str) == str # Undefined /\ str # <<>>

C4_Counts ==
    Past("count_cities") =>
        /\ \A p \in 1..Len(cities) :
              Held(cities, p) =>
                  CountOf(cities[p].salon_count) =
                      Cardinality({n \in 1..Len(beautySalons) :
                                      /\ NonEmpty(beautySalons[n].city_id)
                                      /\ beautySalons[n].city_id = cities[p].id})
        /\ \A p \in 1..Len(states) :
              Held(states, p) =>
                  /\ CountOf(states[p].salon_count) =
                        Cardinality({n \in 1..Len(beautySalons) :
                                        /\ NonEmpty(beautySalons[n].state_id)
                                        /\ beautySalons[n].state_id = states[p].id})
                  /\ CountOf(states[p].city_count) =
                        Cardinality({n \in 1..Len(cities) :
                                        /\ NonEmpty(cities[n].state_id)
                                        /\ cities[n].state_id = states[p].id})

\* C4 as stated: the ids compared by equality alone, an empty id included
C4_AsClaimed ==
    Past("count_cities") =>
        /\ \A p \in 1..Len(cities) :
              Held(cities, p) =>
                  CountOf(cities[p].salon_count) =
                      Cardinality({n \in 1..Len(beautySalons) :
                                      beautySalons[n].city_id = cities[p].id})
        /\ \A p \in 1..Len(states) :
              Held(states, p) =>
                  /\ CountOf(states[p].salon_count) =
                        Cardinality({n \in 1..Len(beautySalons) :
                                        beautySalons[n].state_id = states[p].id})
                  /\ CountOf(states[p].city_count) =
                        Cardinality({n \in 1..Len(cities) :
                                        cities[n].state_id = states[p].id})

\* a city counted twice, a state with a city, and a salon that names a city
\* of the index without carrying its id
C4_Witness ==
    /\ pc = "project_salons"
    /\ \E p \in 1..Len(cities) : cities[p].salon_count = <<2>>
    /\ \E p \in 1..Len(states) : states[p].city_count # NoCount
    /\ \E p \in 1..Len(states) : states[p].salon_count # NoCount
    /\ \E n \in 1..Len(beautySalons), p \in 1..Len(cities) :
          /\ NonEmpty(beautySalons[n].city_name)
          /\ ToLowerCase(beautySalons[n].city_name) = ToLowerCase(cities[p].city)
          /\ beautySalons[n].city_id # cities[p].id

(***************************************************************************)
(* C5  For every City and State, salon_count is at most the length of the  *)
(* salon_ids of its projected view, and equal to it when the index holds   *)
(* the record and every listed salon carries the entity's id as its        *)
(* non-empty city_id or state_id; for every Category the index holds,      *)
(* salon_count is at least the length of salon_ids, and equal to it when   *)
(* no salon lists the category more than once.                             *)
(***************************************************************************)
Occurrences(arr, x) == Cardinality({k \in 1..Len(arr) : arr[k] = x})

C5_CountVsIds ==
    Past("project_categories") =>
        /\ \A p \in 1..Len(cities) :
              /\ CountOf(cities[p].salon_count) <= Len(processedCities[p].salon_ids)
              /\ (/\ Held(cities, p)
                  /\ \A n \in 1..Len(processedSalons) :
                        CityHasSalon(cities[p], processedSalons[n]) =>
                            /\ NonEmpty(processedSalons[n].city_id)
                            /\ processedSalons[n].city_id = cities[p].id)
                 => CountOf(cities[p].salon_count) = Len(processedCities[p].salon_ids)
        /\ \A p \in 1..Len(states) :
              /\ CountOf(states[p].salon_count) <= Len(processedStates[p].salon_ids)
              /\ (/\ Held(states, p)
                  /\ \A n \in 1..Len(processedSalons) :
                        StateHasSalon(states[p], processedStates[p].city_ids,
                                      processedSalons[n]) =>
                            /\ NonEmpty(processedSalons[n].state_id)
                            /\ processedSalons[n].state_id = states[p].id)
                 => CountOf(states[p].salon_count) = Len(processedStates[p].salon_ids)
        /\ \A p \in 1..Len(categories) :
              Held(categories, p) =>
                  /\ CountOf(categories[p].salon_count)
                        >= Len(processedCategories[p].salon_ids)
                  /\ (\A n \in 1..Len(processedSalons) :
                         Occurrences(processedSalons[n].category_ids,
                                     categories[p].id) <= 1)
                     => CountOf(categories[p].salon_count)
                           = Len(processedCategories[p].salon_ids)

\* C5 as stated
C5_AsClaimed ==
    Past("project_categories") =>
        /\ \A p \in 1..Len(cities) :
              CountOf(cities[p].salon_count) = Len(processedCities[p].salon_ids)
        /\ \A p \in 1..Len(states) :
              CountOf(states[p].salon_count) = Len(processedStates[p].salon_ids)
        /\ \A p \in 1..Len(categories) :
              CountOf(categories[p].salon_count) = Len(processedCategories[p].salon_ids)

\* a city whose count is its number of listed salons, and a state listing a
\* salon it did not count
C5_Witness ==
    /\ pc = "done"
    /\ \E p \in 1..Len(cities) :
          cities[p].salon_count = <<2>> /\ Len(processedCities[p].salon_ids) = 2
    /\ \E p \in 1..Len(states) :
          CountOf(states[p].salon_count) < Len(processedStates[p].salon_ids)

(***************************************************************************)
(* C6  In the final state a salon that names a State (or City), case       *)
(* ignored, without carrying its id is listed in the salon_ids of that     *)
(* entity and is not counted: the entity's salon_count is less than the    *)
(* length of its salon_ids.                                                *)
(***************************************************************************)
NamesOnly(salon, idField, nameField, entity, field) ==
    /\ NonEmpty(salon[nameField])
    /\ ToLowerCase(salon[nameField]) = ToLowerCase(entity[field])
    /\ ~(NonEmpty(salon[idField]) /\ salon[idField] = entity.id)

C6_Divergence ==
    pc = "done" =>
        /\ \A p \in 1..Len(states), n \in 1..Len(beautySalons) :
              NamesOnly(beautySalons[n], "state_id", "state_name", states[p], "state") =>
                  /\ Includes(processedStates[p].salon_ids, beautySalons[n].id)
                  /\ CountOf(states[p].salon_count) < Len(processedStates[p].salon_ids)
        /\ \A p \in 1..Len(cities), n \in 1..Len(beautySalons) :
              NamesOnly(beautySalons[n], "city_id", "city_name", cities[p], "city") =>
                  /\ Includes(processedCities[p].salon_ids, beautySalons[n].id)
                  /\ CountOf(cities[p].salon_count) < Len(processedCities[p].salon_ids)

\* a final state with such a salon for a State and such a salon for a City,
\* next to a salon the City did count
C6_Witness ==
    /\ pc = "done"
    /\ \E p \in 1..Len(states), n \in 1..Len(beautySalons) :
          NamesOnly(beautySalons[n], "state_id", "state_name", states[p], "state")
    /\ \E p \in 1..Len(cities), n \in 1..Len(beautySalons) :
          /\ NamesOnly(beautySalons[n], "city_id", "city_name", cities[p], "city")
          /\ cities[p].salon_count = <<1>>
          /\ Len(processedCities[p].salon_ids) = 2

(***************************************************************************)
(* C7  The salon_ids of a projected City are, in salon input order, the    *)
(* ids of the projected salons whose non-empty city_id is the City's id    *)
(* or whose non-empty city_name equals the City's name, case ignored;      *)
(* each such salon once, no other salon.                                   *)
(***************************************************************************)
\* ids lists, in the order of arr, the id of each element at a place in sel
ListsInOrder(ids, arr, sel) ==
    /\ Len(ids) = Cardinality(sel)
    /\ \A k \in sel : ids[Cardinality({j \in sel : j <= k})] = arr[k].id

C7_CitySalonIds ==
    Past("project_cities") =>
        \A p \in 1..Len(processedCities) :
            ListsInOrder(processedCities[p].salon_ids, processedSalons,
                {n \in 1..Len(processedSalons) :
                    \/ /\ NonEmpty(processedSalons[n].city_id)
                       /\ processedSalons[n].city_id = cities[p].id
                    \/ /\ NonEmpty(processedSalons[n].city_name)
                       /\ ToLowerCase(processedSalons[n].city_name)
                            = ToLowerCase(cities[p].city)})

\* a city listing two salons, one matching by id and by name and one by name
\* only, and a city that leaves a salon out
C7_Witness ==
    /\ pc = "project_states"
    /\ \E p \in 1..Len(cities), n, m \in 1..Len(processedSalons) :
          /\ n # m
          /\ Len(processedCities[p].salon_ids) = 2
          /\ processedSalons[n].city_id = cities[p].id
          /\ ToLowerCase(processedSalons[n].city_name) = ToLowerCase(cities[p].city)
          /\ processedSalons[m].city_id # cities[p].id
    /\ \E p \in 1..Len(cities) : Len(processedCities[p].salon_ids) < 2

(***************************************************************************)
(* C8  The city_ids of a projected State are the ids of the projected      *)
(* cities whose state_id is the State's id; its salon_ids are, in salon    *)
(* input order and each once, the ids of the salons whose non-empty        *)
(* state_id is the State's id, or whose non-empty state_name equals the    *)
(* State's name, case ignored, or whose non-empty city_id is among these   *)
(* city_ids.                                                               *)
(***************************************************************************)
C8_StateIds ==
    Past("project_states") =>
        \A p \in 1..Len(processedStates) :
            /\ ListsInOrder(processedStates[p].city_ids, processedCities,
                  {n \in 1..Len(processedCities) :
                      processedCities[n].state_id = states[p].id})
            /\ ListsInOrder(processedStates[p].salon_ids, processedSalons,
                  {n \in 1..Len(processedSalons) :
                      \/ /\ NonEmpty(processedSalons[n].state_id)
                         /\ processedSalons[n].state_id = states[p].id
                      \/ /\ NonEmpty(processedSalons[n].state_name)
                         /\ ToLowerCase(processedSalons[n].state_name)
                              = ToLowerCase(states[p].state)
                      \/ /\ NonEmpty(processedSalons[n].city_id)
                         /\ \E c \in 1..Len(processedCities) :
                               /\ processedCities[c].state_id = states[p].id
                               /\ processedCities[c].id = processedSalons[n].city_id})

\* C8 as stated: the three memberships without the ids being non-empty
C8_AsClaimed ==
    Past("project_states") =>
        \A p \in 1..Len(processedStates) :
            /\ ListsInOrder(processedStates[p].city_ids, processedCities,
                  {n \in 1..Len(processedCities) :
                      processedCities[n].state_id = states[p].id})
            /\ ListsInOrder(processedStates[p].salon_ids, processedSalons,
                  {n \in 1..Len(processedSalons) :
                      \/ processedSalons[n].state_id = states[p].id
                      \/ /\ processedSalons[n].state_name # Undefined
                         /\ ToLowerCase(processedSalons[n].state_name)
                              = ToLowerCase(states[p].state)
                      \/ \E c \in 1..Len(processedCities) :
                            /\ processedCities[c].state_id = states[p].id
                            /\ processedCities[c].id = processedSalons[n].city_id})

\* a state that lists a salon only through one of its cities, while the
\* salon carries the id of another state
C8_Witness ==
    /\ pc = "project_categories"
    /\ \E p \in 1..Len(states), n \in 1..Len(processedSalons) :
          /\ Includes(processedStates[p].salon_ids, processedSalons[n].id)
          /\ Includes(processedStates[p].city_ids, processedSalons[n].city_id)
          /\ NonEmpty(processedSalons[n].state_id)
          /\ processedSalons[n].state_id # states[p].id
          /\ processedSalons[n].state_name = Undefined
    /\ \E p \in 1..Len(states) :
          Len(processedStates[p].salon_ids) < Len(processedSalons)

(***************************************************************************)
(* C9  In the salon projection each multi-value field is the sequence of   *)
(* the comma-separated segments of the loaded field, in their order; an    *)
(* empty or absent field gives the empty sequence.                         *)
(***************************************************************************)
MultiValueFields ==
    {"category_ids", "detail_keys", "detail_values", "amenity_ids", "payment_ids",
     "images"}

\* the segments written one after the other with a comma between them
RECURSIVE JoinComma(_)
JoinComma(segs) ==
    IF Len(segs) = 0 THEN <<>>
    ELSE IF Len(segs) = 1 THEN segs[1]
    ELSE segs[1] \o <<",">> \o JoinComma(Tail(segs))

C9_MultiValue ==
    Past("project_salons") =>
        \A n \in 1..Len(processedSalons), f \in MultiValueFields :
            LET raw == beautySalons[n][f]
                out == processedSalons[n][f]
            IN  IF raw = Undefined \/ raw = <<>>
                THEN out = <<>>
                ELSE /\ Len(out) >= 1
                     /\ JoinComma(out) = raw
                     /\ \A k \in 1..Len(out) : \A j \in 1..Len(out[k]) : out[k][j] # ","
                     /\ raw = <<"1", ",", "2", ",", "3">>
                            => out = << <<"1">>, <<"2">>, <<"3">> >>

\* one salon with a field of three segments, a field of two, an empty field
\* and an absent field
C9_Witness ==
    /\ pc = "project_cities"
    /\ \E n \in 1..Len(processedSalons) :
          /\ processedSalons[n].category_ids = << <<"1">>, <<"2">>, <<"3">> >>
          /\ beautySalons[n].detail_keys = Undefined
          /\ processedSalons[n].detail_keys = <<>>
          /\ beautySalons[n].detail_values = <<>>
          /\ processedSalons[n].detail_values = <<>>
          /\ processedSalons[n].images = << <<"1">>, <<"2">> >>

(***************************************************************************)
(* C10  For n salons generateSitemaps writes ceil(n / 200) company sitemap *)
(* files numbered 1, 2, ... without a gap; each but the last holds 200     *)
(* entries, the last holds the rest; every salon is in exactly one file;   *)
(* no salon, no file; 450 salons give files of 200, 200 and 50 entries.    *)
(***************************************************************************)
C10_Chunks ==
    pc = "done" =>
        LET n == Len(processedSalons)
            files == Len(sitemapFiles)
        IN  /\ files = (n + 199) \div 200
            /\ n = 0 => sitemapFiles = <<>>
            /\ \A f \in 1..files :
                  /\ sitemapFiles[f].index = f
                  /\ companySitemaps[f] = f
                  /\ Len(sitemapFiles[f].entries) =
                        IF f < files THEN 200 ELSE n - 200 * (files - 1)
            /\ \A p \in 1..n :
                  /\ sitemapFiles[((p - 1) \div 200) + 1].entries[((p - 1) % 200) + 1]
                        = processedSalons[p].id
                  /\ \A f \in 1..files :
                        Includes(sitemapFiles[f].entries, processedSalons[p].id)
                            => f = ((p - 1) \div 200) + 1
            /\ n = 450 => [f \in 1..files |-> Len(sitemapFiles[f].entries)]
                              = <<200, 200, 50>>

\* the run with 450 salons has written its three files
C10_Witness ==
    /\ pc = "done"
    /\ Len(processedSalons) = 450
    /\ Len(sitemapFiles) = 3
    /\ Len(sitemapFiles[3].entries) = 50

(***************************************************************************)
(* C11  A step that throws is followed by the catch block and by nothing   *)
(* else: the error is logged, the status is 1, and no step runs after it   *)
(* (the outputs are those of the steps before the one that threw).  The    *)
(* process fails only if a step threw, and the status is 0 only when       *)
(* every JSON file, HTML page group and sitemap has been written.          *)
(***************************************************************************)
EveryOutput ==
    {"data/salons.json", "data/cities.json", "data/states.json",
     "data/categories.json", "companies", "cities", "states",
     "sitemaps/cities-sitemap.xml", "sitemaps/states-sitemap.xml", "sitemap.xml",
     "sitemap/index.html"}

\* the outputs of a run that has come to pc without a throw
OutputsBefore ==
    (IF Past("write_json")
     THEN {"data/salons.json", "data/cities.json", "data/states.json",
           "data/categories.json"} ELSE {})
    \cup (IF Past("render_companies") THEN {"companies"} ELSE {})
    \cup (IF Past("render_cities") THEN {"cities"} ELSE {})
    \cup (IF Past("render_states") THEN {"states"} ELSE {})

C11_Failed ==
    exitCode = <<1>> =>
        /\ Throws
        /\ zip.fault # NoFault \/ zip.members # AllMembers
        /\ logged # <<>>
        /\ logged[Len(logged)] = "Error generating HTML:"
        /\ pc # "done"
        /\ written = OutputsBefore
        /\ Len(sitemapFiles) = i \div SITEMAP_CHUNK
        /\ ~ENABLED Next

C11_Succeeded ==
    exitCode = <<0>> =>
        /\ pc = "done"
        /\ zip.fault.at # "company_sitemaps" => zip.fault = NoFault
        /\ zip.members = AllMembers
        /\ logged = <<>>
        /\ written = EveryOutput
        /\ Len(cityPages) = Len(zip.cities)
        /\ Len(statePages) = Len(zip.states)
        /\ Len(sitemapFiles) = (Len(zip.salons) + SITEMAP_CHUNK - 1) \div SITEMAP_CHUNK

C11_ErrorExit ==
    /\ [](C11_Failed /\ C11_Succeeded /\ (pc = "done" <=> exitCode = <<0>>))
    /\ [][/\ (exitCode = NoExit /\ Throws) => exitCode' = <<1>>
          /\ exitCode' = <<1>> =>
                /\ Throws
                /\ UNCHANGED <<pc, beautySalons, cities, states, categories,
                               processedSalons, processedCities, processedStates,
                               processedCategories, written, cityPages, statePages,
                               i, companySitemaps, sitemapFiles>>
          /\ exitCode # NoExit => exitCode' = exitCode]_vars

\* a run stopped while rendering the city pages, after the JSON files and
\* the company pages were written
C11_Witness ==
    /\ exitCode = <<1>>
    /\ pc = "render_cities"
    /\ logged = <<"Error generating HTML:">>
    /\ written = {"data/salons.json", "data/cities.json", "data/states.json",
                  "data/categories.json", "companies"}
    /\ cityPages = <<>>

(***************************************************************************)
(* C12  The phases run in program order with a barrier between them: the   *)
(* position never moves back; the indexes are built only from four fully   *)
(* loaded members; the backfill, the inference and the counting each       *)
(* change the entities only in their own phase and only after the phase    *)
(* before has completed; a projected record is built only after all        *)
(* counting; an output file is written only after all four projections,    *)
(* the JSON files before the pages and the pages before the sitemaps.      *)
(***************************************************************************)
Loaded ==
    /\ beautySalons = zip.salons /\ cities = zip.cities
    /\ states = zip.states /\ categories = zip.categories

Indexed ==
    /\ citiesMap = NewMap(cities) /\ statesMap = NewMap(states)
    /\ categoriesMap = NewMap(categories)

Projected ==
    /\ Len(processedSalons) = Len(beautySalons)
    /\ Len(processedCities) = Len(cities)
    /\ Len(processedStates) = Len(states)
    /\ Len(processedCategories) = Len(categories)

JsonFiles ==
    {"data/salons.json", "data/cities.json", "data/states.json", "data/categories.json"}

C12_State ==
    /\ (citiesMap # <<>> \/ statesMap # <<>> \/ categoriesMap # <<>>)
          => Past("read_categories")
    /\ (\E n \in 1..Len(cities) : cities[n] # zip.cities[n]) => Past("index")
    /\ (\E n \in 1..Len(beautySalons) : beautySalons[n] # zip.salons[n])
          => Past("backfill")
    /\ (\/ \E n \in 1..Len(cities) : cities[n].salon_count # NoCount
        \/ \E n \in 1..Len(states) : states[n] # zip.states[n]
        \/ \E n \in 1..Len(categories) : categories[n] # zip.categories[n])
          => Past("infer")
    /\ (\/ processedSalons # <<>> \/ processedCities # <<>>
        \/ processedStates # <<>> \/ processedCategories # <<>>)
          => Past("count_cities")
    /\ (written # {} \/ sitemapFiles # <<>> \/ cityPages # <<>> \/ statePages # <<>>)
          => Past("project_categories") /\ Projected
    /\ written \ JsonFiles # {} => JsonFiles \subseteq written
    /\ (sitemapFiles # <<>> \/ "sitemap.xml" \in written)
          => {"companies", "cities", "states"} \subseteq written

C12_Step ==
    /\ PhaseNo(pc') >= PhaseNo(pc)
    /\ <<citiesMap, statesMap, categoriesMap>>' # <<citiesMap, statesMap, categoriesMap>>
          => pc = "index" /\ Loaded
    /\ (Past("read_categories") /\ cities' # cities)
          => \/ pc = "backfill" /\ Indexed /\ beautySalons = zip.salons
             \/ pc = "count_salons"
    /\ (Past("read_categories") /\ beautySalons' # beautySalons)
          => /\ pc = "infer"
             /\ cities = Backfill(zip.cities, states, statesMap)
             /\ states = zip.states
    /\ (Past("read_categories") /\ <<states, categories>>' # <<states, categories>>)
          => pc \in {"count_salons", "count_cities"}
    /\ pc \in {"count_salons", "count_cities"}
          => /\ beautySalons = Infer(zip.salons, cities, citiesMap, states, statesMap)
                 \/ pc = "count_cities"
             /\ UNCHANGED <<beautySalons, processedSalons, processedCities,
                            processedStates, processedCategories>>
    /\ <<processedSalons, processedCities, processedStates, processedCategories>>'
            # <<processedSalons, processedCities, processedStates, processedCategories>>
          => /\ Past("count_cities")
             /\ UNCHANGED <<beautySalons, cities, states, categories, written>>
    /\ Past("count_cities") => UNCHANGED <<beautySalons, cities, states, categories>>
    /\ Past("project_categories")
          => UNCHANGED <<processedSalons, processedCities, processedStates,
                         processedCategories>>

C12_Barrier == []C12_State /\ [][C12_Step]_vars

\* the JSON files are written, no page yet, from entities that every earlier
\* phase has changed
C12_Witness ==
    /\ pc = "render_companies"
    /\ written = JsonFiles
    /\ \E n \in 1..Len(cities) : cities[n].state_name # zip.cities[n].state_name
    /\ \E n \in 1..Len(beautySalons) : beautySalons[n].city_id # zip.salons[n].city_id
    /\ \E n \in 1..Len(states) : states[n].city_count # NoCount
    /\ \E n \in 1..Len(processedCities) : processedCities[n].salon_ids # <<>>

(***************************************************************************)
(* C13  On the example of two salons, the city Springfield, the state      *)
(* Illinois and one category, where salon A carries both ids and salon B   *)
(* only the address "123 Main St, Springfield, Illinois, USA", the run     *)
(* ends with both salon ids in the salon_ids of the city and of the state, *)
(* and with salon_count 2 for the city and for the state.                  *)
(***************************************************************************)
C13_EndToEnd ==
    (zip = Fixture /\ pc = "done") =>
        /\ processedCities[1].salon_ids = <<beautySalons[1].id, beautySalons[2].id>>
        /\ processedStates[1].salon_ids = <<beautySalons[1].id, beautySalons[2].id>>
        /\ beautySalons[1].id # beautySalons[2].id
        /\ cities[1].salon_count = <<2>>
        /\ states[1].salon_count = <<2>>

\* the run on the example has ended, salon B linked by its address
C13_Witness ==
    /\ zip = Fixture
    /\ pc = "done"
    /\ exitCode = <<0>>
    /\ zip.salons[2].city_id = Undefined
    /\ beautySalons[2].city_id = I1
    /\ beautySalons[2].state_name = Illinois

(***************************************************************************)
(* C14  Inference leaves city_id, city_name, state_id and state_name of a  *)
(* salon as loaded when the address is empty or absent, or city_id is      *)
(* set, or state_id is set, or the address has fewer than three segments;  *)
(* it changes no other field of any salon, and no City, State, Category    *)
(* or index.                                                               *)
(***************************************************************************)
LinkFields == {"city_id", "city_name", "state_id", "state_name"}

Untriggered(row) ==
    IF row.address = Undefined \/ row.address = <<>> THEN TRUE
    ELSE \/ NonEmpty(row.city_id)
         \/ NonEmpty(row.state_id)
         \/ Len(Split(row.address)) < 3

C14_State ==
    Past("infer") =>
        \A n \in 1..Len(beautySalons) :
            /\ Untriggered(zip.salons[n]) => beautySalons[n] = zip.salons[n]
            /\ \A f \in (DOMAIN zip.salons[n]) \ LinkFields :
                  beautySalons[n][f] = zip.salons[n][f]
            /\ DOMAIN beautySalons[n] = DOMAIN zip.salons[n]

C14_Frame ==
    /\ []C14_State
    /\ [][pc = "infer" => UNCHANGED <<cities, states, categories, citiesMap,
                                       statesMap, categoriesMap>>]_vars

\* a salon with state_id set and city_id empty whose address names a city
\* and a state of the indexes, left as loaded
C14_Witness ==
    /\ pc = "count_salons"
    /\ \E n \in 1..Len(beautySalons) :
          /\ NonEmpty(zip.salons[n].state_id)
          /\ zip.salons[n].city_id = <<>>
          /\ NonEmpty(zip.salons[n].address)
          /\ Len(Split(zip.salons[n].address)) >= 3
          /\ NameMatches(cities, "city", SegmentFromEnd(zip.salons[n].address, 3)) # {}
          /\ NameMatches(states, "state", SegmentFromEnd(zip.salons[n].address, 2)) # {}
          /\ beautySalons[n] = zip.salons[n]

(***************************************************************************)
(* C15  After the aggregation every Category the index holds has           *)
(* salon_count equal to the number of occurrences of its id among the      *)
(* comma-separated segments of the category_ids fields of all salons (an   *)
(* empty field has none), an id listed k times in one field counting k; a  *)
(* segment that is no key of the index adds nothing and stops nothing.     *)
(* The projected salon_ids of a Category lists each salon that lists its   *)
(* id once, so salon_count can exceed its length.                          *)
(***************************************************************************)
\* the places (salon, segment) at which the id is listed
Listings(sls, id) ==
    UNION {{<<n, k>> : k \in {j \in 1..Len(SplitField(sls[n].category_ids)) :
                                  SplitField(sls[n].category_ids)[j] = id}} :
           n \in 1..Len(sls)}

C15_CategoryCounts ==
    /\ Past("count_salons") =>
          \A p \in 1..Len(categories) :
              Held(categories, p) =>
                  CountOf(categories[p].salon_count)
                      = Cardinality(Listings(beautySalons, categories[p].id))
    /\ Past("project_categories") =>
          \A p \in 1..Len(categories) :
              ListsInOrder(processedCategories[p].salon_ids, processedSalons,
                  {n \in 1..Len(beautySalons) :
                      \E l \in Listings(beautySalons, categories[p].id) : l[1] = n})

\* C15 as stated: for each Category record, a record shadowed in the index
\* by a later one with the same id included
C15_AsClaimed ==
    Past("count_salons") =>
        \A p \in 1..Len(categories) :
            CountOf(categories[p].salon_count)
                = Cardinality(Listings(beautySalons, categories[p].id))

\* a Category counted three times and listing two salons, next to a segment
\* that is no key of the index, in a run that has ended
C15_Witness ==
    /\ pc = "done"
    /\ \E p \in 1..Len(categories) :
          /\ categories[p].salon_count = <<3>>
          /\ Len(processedCategories[p].salon_ids) = 2
    /\ \E n \in 1..Len(beautySalons) :
          \E k \in 1..Len(processedSalons[n].category_ids) :
              \A p \in 1..Len(categories) :
                  categories[p].id # processedSalons[n].category_ids[k]

(***************************************************************************)
(* C16  Records of one kind that share an id raise no error.  The index    *)
(* maps the id to the last of them in input order; the backfill reads the  *)
(* name of that last State, and the counting annotates that last record    *)
(* only: an earlier record with the same id keeps the counts it was loaded *)
(* with.  Every record, shadowed or not, is projected, and every City and  *)
(* State is rendered: as many projected records and pages as loaded        *)
(* records, in input order.                                                *)
(***************************************************************************)
LastWithId(arr, p) == CHOOSE q \in 1..Len(arr) : arr[q].id = arr[p].id /\ Held(arr, q)

IndexHoldsLast(m, arr) ==
    \A p \in 1..Len(arr) :
        /\ MapHas(m, arr, arr[p].id)
        /\ MapGet(m, arr, arr[p].id) = LastWithId(arr, p)
        /\ Cardinality({k \in 1..Len(m) : arr[m[k]].id = arr[p].id}) = 1

C16_Duplicates ==
    /\ Past("index") =>
          /\ IndexHoldsLast(citiesMap, cities)
          /\ IndexHoldsLast(statesMap, states)
          /\ IndexHoldsLast(categoriesMap, categories)
    /\ Past("backfill") =>
          \A n \in 1..Len(cities), p \in 1..Len(states) :
              (NonEmpty(cities[n].state_id) /\ states[p].id = cities[n].state_id)
                  => cities[n].state_name = states[LastWithId(states, p)].state
    /\ Past("count_cities") =>
          /\ \A p \in 1..Len(cities) :
                ~Held(cities, p) => cities[p].salon_count = zip.cities[p].salon_count
          /\ \A p \in 1..Len(states) :
                ~Held(states, p) => /\ states[p].salon_count = zip.states[p].salon_count
                                    /\ states[p].city_count = zip.states[p].city_count
          /\ \A p \in 1..Len(categories) :
                ~Held(categories, p)
                    => categories[p].salon_count = zip.categories[p].salon_count
    /\ Past("project_categories") =>
          /\ Len(processedSalons) = Len(zip.salons)
          /\ Len(processedCities) = Len(zip.cities)
          /\ Len(processedStates) = Len(zip.states)
          /\ Len(processedCategories) = Len(zip.categories)
          /\ \A p \in 1..Len(cities) : processedCities[p].id = zip.cities[p].id
          /\ \A p \in 1..Len(states) : processedStates[p].id = zip.states[p].id
          /\ \A p \in 1..Len(categories) :
                processedCategories[p].id = zip.categories[p].id
    /\ Past("render_states") =>
          /\ Len(cityPages) = Len(zip.cities)
          /\ Len(statePages) = Len(zip.states)

\* a run that has ended with two cities of one id: the later one counted,
\* the earlier one not counted and still listing the salon
C16_Witness ==
    /\ pc = "done"
    /\ exitCode = <<0>>
    /\ \E p, q \in 1..Len(cities) :
          /\ p < q
          /\ cities[p].id = cities[q].id
          /\ cities[q].salon_count # NoCount
          /\ cities[p].salon_count = NoCount
          /\ processedCities[p].salon_ids # <<>>
          /\ cityPages[p] # <<>>
    /\ \E p, q \in 1..Len(states) : p < q /\ states[p].id = states[q].id

(***************************************************************************)
(* C17  The salons listed on a rendered city page are the City's projected *)
(* salon_ids, and the cities and salons of a rendered state page are the   *)
(* State's projected city_ids and salon_ids, for every input.              *)
(* As built, the page filters compare the ids without asking that they be  *)
(* non-empty: a page lists the projected salon_ids and, in addition, every *)
(* salon whose empty or absent id equals the entity's id.                  *)
(***************************************************************************)
\* C17 as stated
C17_AsClaimed ==
    /\ Past("render_cities") =>
          \A p \in 1..Len(processedCities) :
              cityPages[p] = processedCities[p].salon_ids
    /\ Past("render_states") =>
          \A p \in 1..Len(processedStates) :
              /\ statePages[p].cities = processedStates[p].city_ids
              /\ statePages[p].salons = processedStates[p].salon_ids

\* what the pages list
C17_PagesVsIds ==
    /\ Past("render_cities") =>
          \A p \in 1..Len(processedCities) :
              ListsInOrder(cityPages[p], processedSalons,
                  {n \in 1..Len(processedSalons) :
                      \/ Includes(processedCities[p].salon_ids, processedSalons[n].id)
                      \/ processedSalons[n].city_id = processedCities[p].id})
    /\ Past("render_states") =>
          \A p \in 1..Len(processedStates) :
              /\ statePages[p].cities = processedStates[p].city_ids
              /\ ListsInOrder(statePages[p].salons, processedSalons,
                    {n \in 1..Len(processedSalons) :
                        \/ Includes(processedStates[p].salon_ids, processedSalons[n].id)
                        \/ processedSalons[n].state_id = processedStates[p].id})

\* a city page that lists a salon the City's salon_ids leaves out: both ids
\* are empty
C17_Witness ==
    /\ pc = "done"
    /\ \E p \in 1..Len(processedCities), n \in 1..Len(processedSalons) :
          /\ processedCities[p].id = <<>>
          /\ processedSalons[n].city_id = <<>>
          /\ Includes(cityPages[p], processedSalons[n].id)
          /\ ~Includes(processedCities[p].salon_ids, processedSalons[n].id)
    /\ \E p \in 1..Len(processedCities) :
          cityPages[p] = processedCities[p].salon_ids /\ cityPages[p] # <<>>

(***************************************************************************)
(* C18  In the projected records, a salon with a non-empty city_id is in   *)
(* the salon_ids of every City with that id; and for every State whose id  *)
(* is the state_id of such a City, the City's id is in the State's         *)
(* city_ids and the salon's id in the State's salon_ids, whatever          *)
(* state_id and state_name the salon carries.                              *)
(***************************************************************************)
C18_CrossLinks ==
    Past("project_states") =>
        \A n \in 1..Len(processedSalons), c \in 1..Len(processedCities) :
            (NonEmpty(processedSalons[n].city_id)
             /\ processedCities[c].id = processedSalons[n].city_id)
                => /\ Includes(processedCities[c].salon_ids, processedSalons[n].id)
                   /\ \A p \in 1..Len(processedStates) :
                         processedStates[p].id = processedCities[c].state_id
                             => /\ Includes(processedStates[p].city_ids,
                                             processedCities[c].id)
                                /\ Includes(processedStates[p].salon_ids,
                                             processedSalons[n].id)

\* a salon in the salon_ids of two States with different ids: of one by its
\* own state_id, of the other through its City only
C18_Witness ==
    /\ pc = "done"
    /\ \E n \in 1..Len(processedSalons), c \in 1..Len(processedCities),
           p, q \in 1..Len(processedStates) :
          /\ NonEmpty(processedSalons[n].city_id)
          /\ processedCities[c].id = processedSalons[n].city_id
          /\ processedStates[p].id = processedCities[c].state_id
          /\ processedStates[q].id = processedSalons[n].state_id
          /\ processedStates[p].id # processedStates[q].id
          /\ processedSalons[n].state_name = Undefined
          /\ Includes(processedStates[p].salon_ids, processedSalons[n].id)
          /\ Includes(processedStates[q].salon_ids, processedSalons[n].id)

====
